---- MODULE Spec2Model ----
(***************************************************************************)
(* The in-memory bank of src/src/bank.rs: the account registry, the        *)
(* deposit history and the active-dispute index, and the five transaction  *)
(* handlers that process_transaction dispatches to.  The Account entity    *)
(* (crate::account) and the Transaction record (crate::transaction) are    *)
(* not part of bank.rs; their operations follow sections 3 and 4.1 of the  *)
(* design document and the expectations of tests::iterator.                *)
(***************************************************************************)
EXTENDS Integers, FiniteSets, Sequences, TLC

\* ------------------------------------------------------------------ bounds
MaxClient == 2
MaxTx == 2
MaxAmount == 1
\* The feed holds at most MaxFeed records.
MaxFeed == 6

\* ------------------------------------------------------------------- types
AccountID == 1..MaxClient
TransactionID == 1..MaxTx

\* Option<Amount>::None, a value outside Amount
None == -1
\* Amount: scaled integer; the feed carries non-negative amounts.
Amount == 0..MaxAmount

Kind == {"Deposit", "Withdrawal", "Dispute", "Resolve", "Chargeback"}

\* Deposit/Withdrawal records carry an optional amount; the three
\* dispute-lifecycle kinds carry none.
Transaction ==
    [kind : {"Deposit", "Withdrawal"}, client : AccountID, id : TransactionID,
     amount : Amount \cup {None}]
    \cup
    [kind : {"Dispute", "Resolve", "Chargeback"}, client : AccountID,
     id : TransactionID, amount : {None}]

\* The value of lastTx before any record has been processed.
NoTx == [kind |-> "None", client |-> 0, id |-> 0, amount |-> None]

\* The value of snapshot while no accounts_iter iterator borrows the Bank.
NoSnapshot == [taken |-> FALSE, rows |-> {}]

\* The value of preDispute when no accepted Dispute is being followed.
NoDispute == [id |-> 0, client |-> 0, available |-> 0, held |-> 0]

\* ----------------------------------------------------------------- HashMap
EmptyMap == [x \in {} |-> 0]
Insert(m, k, v) == [x \in (DOMAIN m) \cup {k} |-> IF x = k THEN v ELSE m[x]]
Remove(m, k) == [x \in (DOMAIN m) \ {k} |-> m[x]]

\* ----------------------------------------------------------------- Account
Account_new == [available |-> 0, held |-> 0, locked |-> FALSE]

available(a) == a.available
held(a) == a.held
total(a) == a.available + a.held
is_locked(a) == a.locked

\* credit: available += amount; no failure mode.
credit(a, amount) == [a EXCEPT !.available = @ + amount]

\* try_debit: succeeds iff the account is not locked and available >= amount.
try_debit(a, amount) ==
    IF a.locked THEN [err |-> "AccountLocked", account |-> a]
    ELSE IF a.available >= amount
         THEN [err |-> "Ok", account |-> [a EXCEPT !.available = @ - amount]]
         ELSE [err |-> "InsufficientFunds", account |-> a]

\* try_dispute: moves amount from available to held.
try_dispute(a, amount) ==
    IF a.available >= amount
    THEN [err |-> "Ok",
          account |-> [a EXCEPT !.available = @ - amount, !.held = @ + amount]]
    ELSE [err |-> "InsufficientAvailableFunds", account |-> a]

\* try_resolve: moves amount from held back to available.
try_resolve(a, amount) ==
    IF a.held >= amount
    THEN [err |-> "Ok",
          account |-> [a EXCEPT !.held = @ - amount, !.available = @ + amount]]
    ELSE [err |-> "InsufficientHeldFunds", account |-> a]

\* try_chargeback: held -= amount; locked = true.
try_chargeback(a, amount) ==
    IF a.held >= amount
    THEN [err |-> "Ok",
          account |-> [a EXCEPT !.held = @ - amount, !.locked = TRUE]]
    ELSE [err |-> "InsufficientHeldFunds", account |-> a]

\* ------------------------------------------------------------------- state
VARIABLES
    accounts,       \* Bank.accounts: AccountID -> Account
    transactions,   \* Bank.transactions: TransactionID -> deposit record
    disputes,       \* Bank.disputes: TransactionID -> deposit record
    lastTx,         \* the record the last process_transaction call consumed
    outcome,        \* the branch that call took (the Result the Bank drops)
    preDispute,     \* balances before the Dispute the previous call accepted,
                    \* kept while the call that follows it is its Resolve
    chargedBack,    \* transaction IDs a Chargeback has been applied to
    chargedClients, \* clients whose account a Chargeback has been applied to
    resolved,       \* transaction IDs a Resolve has been applied to
    snapshot,       \* the rows of the accounts_iter iterator, while one lives
    processed       \* number of records of the feed processed so far

vars == <<accounts, transactions, disputes, lastTx, outcome, preDispute,
          chargedBack, chargedClients, resolved, snapshot, processed>>
bank == <<accounts, transactions, disputes>>

\* Bank::new
Init ==
    /\ accounts = EmptyMap
    /\ transactions = EmptyMap
    /\ disputes = EmptyMap
    /\ lastTx = NoTx
    /\ outcome = "None"
    /\ preDispute = NoDispute
    /\ chargedBack = {}
    /\ chargedClients = {}
    /\ resolved = {}
    /\ snapshot = NoSnapshot
    /\ processed = 0

\* ---------------------------------------------------------------- handlers
\* process_deposit that credits the account and forgets to record the
\* deposit in the history.
process_deposit_unrecorded(t) ==
    IF t.amount # None
    THEN LET account == IF t.client \in DOMAIN accounts
                        THEN accounts[t.client] ELSE Account_new
         IN /\ accounts' = Insert(accounts, t.client, credit(account, t.amount))
            /\ UNCHANGED <<transactions, disputes>>
            /\ outcome' = "Ok"
    ELSE /\ UNCHANGED bank
         /\ outcome' = "MalformedTransaction"

\* process_deposit with the history insert outside the if-let: a record
\* without an amount is recorded too.
process_deposit_records_malformed(t) ==
    IF t.amount # None
    THEN LET account == IF t.client \in DOMAIN accounts
                        THEN accounts[t.client] ELSE Account_new
         IN /\ accounts' = Insert(accounts, t.client, credit(account, t.amount))
            /\ transactions' = Insert(transactions, t.id, t)
            /\ disputes' = disputes
            /\ outcome' = "Ok"
    ELSE /\ transactions' = Insert(transactions, t.id, t)
         /\ UNCHANGED <<accounts, disputes>>
         /\ outcome' = "MalformedTransaction"

process_deposit(t) ==
    IF t.amount # None
    THEN LET account == IF t.client \in DOMAIN accounts
                        THEN accounts[t.client] ELSE Account_new
         IN /\ accounts' = Insert(accounts, t.client, credit(account, t.amount))
            /\ transactions' = Insert(transactions, t.id, t)
            /\ disputes' = disputes
            /\ outcome' = "Ok"
    ELSE /\ UNCHANGED bank
         /\ outcome' = "MalformedTransaction"

\* process_withdrawl with the account looked up by entry().or_insert_with,
\* as process_deposit does.
process_withdrawl_or_insert(t) ==
    LET account == IF t.client \in DOMAIN accounts
                   THEN accounts[t.client] ELSE Account_new
    IN IF t.amount # None
       THEN LET r == try_debit(account, t.amount)
            IN /\ accounts' = Insert(accounts, t.client, r.account)
               /\ UNCHANGED <<transactions, disputes>>
               /\ outcome' = r.err
       ELSE /\ accounts' = Insert(accounts, t.client, account)
            /\ UNCHANGED <<transactions, disputes>>
            /\ outcome' = "MalformedTransaction"

\* process_withdrawl that also records the record in the history, as
\* process_deposit does.
process_withdrawl_recorded(t) ==
    IF t.client \in DOMAIN accounts
    THEN IF t.amount # None
         THEN LET r == try_debit(accounts[t.client], t.amount)
              IN /\ accounts' = [accounts EXCEPT ![t.client] = r.account]
                 /\ transactions' = Insert(transactions, t.id, t)
                 /\ disputes' = disputes
                 /\ outcome' = r.err
         ELSE /\ UNCHANGED bank
              /\ outcome' = "MalformedTransaction"
    ELSE /\ UNCHANGED bank
         /\ outcome' = "UnknownAccount"

process_withdrawl(t) ==
    IF t.client \in DOMAIN accounts
    THEN IF t.amount # None
         THEN LET r == try_debit(accounts[t.client], t.amount)
              IN /\ accounts' = [accounts EXCEPT ![t.client] = r.account]
                 /\ UNCHANGED <<transactions, disputes>>
                 /\ outcome' = r.err
         ELSE /\ UNCHANGED bank
              /\ outcome' = "MalformedTransaction"
    ELSE /\ UNCHANGED bank
         /\ outcome' = "UnknownAccount"

\* process_dispute that moves the funds without looking at available.
process_dispute_unchecked(t) ==
    IF t.id \in DOMAIN transactions
    THEN LET old_transaction == transactions[t.id]
         IN IF old_transaction.client \in DOMAIN accounts
            THEN /\ accounts' =
                       [accounts EXCEPT ![old_transaction.client] =
                           [@ EXCEPT !.available = @ - old_transaction.amount,
                                     !.held = @ + old_transaction.amount]]
                 /\ disputes' = Insert(disputes, t.id, old_transaction)
                 /\ transactions' = transactions
                 /\ outcome' = "Ok"
            ELSE /\ UNCHANGED bank
                 /\ outcome' = "UnknownAccount"
    ELSE /\ UNCHANGED bank
         /\ outcome' = "UnknownTransaction"

\* process_dispute that drops the Result of try_dispute and always inserts.
process_dispute_always_insert(t) ==
    IF t.id \in DOMAIN transactions
    THEN LET old_transaction == transactions[t.id]
         IN IF old_transaction.client \in DOMAIN accounts
            THEN LET r == try_dispute(accounts[old_transaction.client],
                                      old_transaction.amount)
                 IN /\ accounts' =
                          [accounts EXCEPT ![old_transaction.client] = r.account]
                    /\ disputes' = Insert(disputes, t.id, old_transaction)
                    /\ transactions' = transactions
                    /\ outcome' = r.err
            ELSE /\ UNCHANGED bank
                 /\ outcome' = "UnknownAccount"
    ELSE /\ UNCHANGED bank
         /\ outcome' = "UnknownTransaction"

\* process_dispute that files the dispute record itself when the history has
\* no deposit under its ID.
process_dispute_unknown_filed(t) ==
    IF t.id \in DOMAIN transactions
    THEN LET old_transaction == transactions[t.id]
         IN IF old_transaction.client \in DOMAIN accounts
            THEN LET r == try_dispute(accounts[old_transaction.client],
                                      old_transaction.amount)
                 IN /\ accounts' =
                          [accounts EXCEPT ![old_transaction.client] = r.account]
                    /\ disputes' = IF r.err = "Ok"
                                   THEN Insert(disputes, t.id, old_transaction)
                                   ELSE disputes
                    /\ transactions' = transactions
                    /\ outcome' = r.err
            ELSE /\ UNCHANGED bank
                 /\ outcome' = "UnknownAccount"
    ELSE /\ disputes' = Insert(disputes, t.id, t)
         /\ UNCHANGED <<accounts, transactions>>
         /\ outcome' = "UnknownTransaction"

\* process_dispute that takes the account of the dispute record's own client.
process_dispute_own_client(t) ==
    IF t.id \in DOMAIN transactions
    THEN LET old_transaction == transactions[t.id]
         IN IF t.client \in DOMAIN accounts
            THEN LET r == try_dispute(accounts[t.client],
                                      old_transaction.amount)
                 IN /\ accounts' = [accounts EXCEPT ![t.client] = r.account]
                    /\ disputes' = IF r.err = "Ok"
                                   THEN Insert(disputes, t.id, old_transaction)
                                   ELSE disputes
                    /\ transactions' = transactions
                    /\ outcome' = r.err
            ELSE /\ UNCHANGED bank
                 /\ outcome' = "UnknownAccount"
    ELSE /\ UNCHANGED bank
         /\ outcome' = "UnknownTransaction"

process_dispute(t) ==
    IF t.id \in DOMAIN transactions
    THEN LET old_transaction == transactions[t.id]
         IN IF old_transaction.client \in DOMAIN accounts
            THEN LET r == try_dispute(accounts[old_transaction.client],
                                      old_transaction.amount)
                 IN /\ accounts' =
                          [accounts EXCEPT ![old_transaction.client] = r.account]
                    /\ disputes' = IF r.err = "Ok"
                                   THEN Insert(disputes, t.id, old_transaction)
                                   ELSE disputes
                    /\ transactions' = transactions
                    /\ outcome' = r.err
            ELSE /\ UNCHANGED bank
                 /\ outcome' = "UnknownAccount"
    ELSE /\ UNCHANGED bank
         /\ outcome' = "UnknownTransaction"

\* process_resolve that reads the dispute with get and leaves it in the index.
process_resolve_not_removed(t) ==
    IF t.id \in DOMAIN disputes
    THEN LET transaction == disputes[t.id]
         IN /\ disputes' = disputes
            /\ transactions' = transactions
            /\ IF transaction.client \in DOMAIN accounts
               THEN LET r == try_resolve(accounts[transaction.client],
                                         transaction.amount)
                    IN /\ accounts' =
                             [accounts EXCEPT ![transaction.client] = r.account]
                       /\ outcome' = r.err
               ELSE /\ accounts' = accounts
                    /\ outcome' = "UnknownAccount"
    ELSE /\ UNCHANGED bank
         /\ outcome' = "NoActiveDispute"

\* process_resolve that calls try_chargeback, as process_chargeback does.
process_resolve_as_chargeback(t) ==
    IF t.id \in DOMAIN disputes
    THEN LET transaction == disputes[t.id]
         IN /\ disputes' = Remove(disputes, t.id)
            /\ transactions' = transactions
            /\ IF transaction.client \in DOMAIN accounts
               THEN LET r == try_chargeback(accounts[transaction.client],
                                            transaction.amount)
                    IN /\ accounts' =
                             [accounts EXCEPT ![transaction.client] = r.account]
                       /\ outcome' = r.err
               ELSE /\ accounts' = accounts
                    /\ outcome' = "UnknownAccount"
    ELSE /\ UNCHANGED bank
         /\ outcome' = "NoActiveDispute"

\* process_resolve that also drops the deposit from the history.
process_resolve_forgets_deposit(t) ==
    IF t.id \in DOMAIN disputes
    THEN LET transaction == disputes[t.id]
         IN /\ disputes' = Remove(disputes, t.id)
            /\ transactions' = Remove(transactions, t.id)
            /\ IF transaction.client \in DOMAIN accounts
               THEN LET r == try_resolve(accounts[transaction.client],
                                         transaction.amount)
                    IN /\ accounts' =
                             [accounts EXCEPT ![transaction.client] = r.account]
                       /\ outcome' = r.err
               ELSE /\ accounts' = accounts
                    /\ outcome' = "UnknownAccount"
    ELSE /\ UNCHANGED bank
         /\ outcome' = "NoActiveDispute"

process_resolve(t) ==
    IF t.id \in DOMAIN disputes
    THEN LET transaction == disputes[t.id]
         IN /\ disputes' = Remove(disputes, t.id)
            /\ transactions' = transactions
            /\ IF transaction.client \in DOMAIN accounts
               THEN LET r == try_resolve(accounts[transaction.client],
                                         transaction.amount)
                    IN /\ accounts' =
                             [accounts EXCEPT ![transaction.client] = r.account]
                       /\ outcome' = r.err
               ELSE /\ accounts' = accounts
                    /\ outcome' = "UnknownAccount"
    ELSE /\ UNCHANGED bank
         /\ outcome' = "NoActiveDispute"

\* process_chargeback that looks the ID up in the deposit history instead of
\* the active-dispute index.
process_chargeback_from_history(t) ==
    IF t.id \in DOMAIN transactions
    THEN LET transaction == transactions[t.id]
         IN /\ disputes' = Remove(disputes, t.id)
            /\ transactions' = transactions
            /\ IF transaction.client \in DOMAIN accounts
               THEN LET r == try_chargeback(accounts[transaction.client],
                                            transaction.amount)
                    IN /\ accounts' =
                             [accounts EXCEPT ![transaction.client] = r.account]
                       /\ outcome' = r.err
               ELSE /\ accounts' = accounts
                    /\ outcome' = "UnknownAccount"
    ELSE /\ UNCHANGED bank
         /\ outcome' = "NoActiveDispute"

\* process_chargeback that calls try_resolve, as process_resolve does.
process_chargeback_as_resolve(t) ==
    IF t.id \in DOMAIN disputes
    THEN LET transaction == disputes[t.id]
         IN /\ disputes' = Remove(disputes, t.id)
            /\ transactions' = transactions
            /\ IF transaction.client \in DOMAIN accounts
               THEN LET r == try_resolve(accounts[transaction.client],
                                         transaction.amount)
                    IN /\ accounts' =
                             [accounts EXCEPT ![transaction.client] = r.account]
                       /\ outcome' = r.err
               ELSE /\ accounts' = accounts
                    /\ outcome' = "UnknownAccount"
    ELSE /\ UNCHANGED bank
         /\ outcome' = "NoActiveDispute"

process_chargeback(t) ==
    IF t.id \in DOMAIN disputes
    THEN LET transaction == disputes[t.id]
         IN /\ disputes' = Remove(disputes, t.id)
            /\ transactions' = transactions
            /\ IF transaction.client \in DOMAIN accounts
               THEN LET r == try_chargeback(accounts[transaction.client],
                                            transaction.amount)
                    IN /\ accounts' =
                             [accounts EXCEPT ![transaction.client] = r.account]
                       /\ outcome' = r.err
               ELSE /\ accounts' = accounts
                    /\ outcome' = "UnknownAccount"
    ELSE /\ UNCHANGED bank
         /\ outcome' = "NoActiveDispute"

\* The balances of the deposit's account before an accepted Dispute of t.id.
DisputeSnapshot(t) ==
    LET c == transactions[t.id].client
    IN [id |-> t.id, client |-> c,
        available |-> accounts[c].available, held |-> accounts[c].held]

\* accounts_iter with held and total in each other's place.
accounts_iter_swapped ==
    {<<id, available(accounts[id]), total(accounts[id]), held(accounts[id]),
       is_locked(accounts[id])>> : id \in DOMAIN accounts}

\* Bank::accounts_iter: (client, available, held, total, locked) per account.
accounts_iter ==
    {<<id, available(accounts[id]), held(accounts[id]), total(accounts[id]),
       is_locked(accounts[id])>> : id \in DOMAIN accounts}

process_transaction(t) ==
    /\ \/ t.kind = "Deposit" /\ process_deposit(t)
       \/ t.kind = "Withdrawal" /\ process_withdrawl(t)
       \/ t.kind = "Dispute" /\ process_dispute(t)
       \/ t.kind = "Resolve" /\ process_resolve(t)
       \/ t.kind = "Chargeback" /\ process_chargeback(t)
    /\ lastTx' = t
    /\ preDispute' = IF t.kind = "Dispute" /\ outcome' = "Ok"
                     THEN DisputeSnapshot(t)
                     ELSE IF /\ t.kind = "Resolve"
                             /\ lastTx.kind = "Dispute"
                             /\ preDispute.id = t.id
                          THEN preDispute
                          ELSE NoDispute
    /\ chargedBack' = IF t.kind = "Chargeback" /\ outcome' = "Ok"
                      THEN chargedBack \cup {t.id} ELSE chargedBack
    /\ chargedClients' = IF /\ t.kind = "Chargeback"
                            /\ outcome' = "Ok"
                            /\ t.id \in DOMAIN disputes
                         THEN chargedClients \cup {disputes[t.id].client}
                         ELSE chargedClients
    /\ resolved' = IF t.kind = "Resolve" /\ outcome' = "Ok"
                   THEN resolved \cup {t.id} ELSE resolved
    /\ snapshot' = NoSnapshot
    /\ processed' = processed + 1

\* The records of one kind the feed can hand over.
Records(kind) == {t \in Transaction : t.kind = kind}

\* The feed hands over one record, while it has records.
Deposit ==
    /\ processed < MaxFeed
    /\ \E t \in Records("Deposit") : process_transaction(t)

Withdrawal ==
    /\ processed < MaxFeed
    /\ \E t \in Records("Withdrawal") : process_transaction(t)

Dispute ==
    /\ processed < MaxFeed
    /\ \E t \in Records("Dispute") : process_transaction(t)

Resolve ==
    /\ processed < MaxFeed
    /\ \E t \in Records("Resolve") : process_transaction(t)

Chargeback ==
    /\ processed < MaxFeed
    /\ \E t \in Records("Chargeback") : process_transaction(t)

\* The caller collects accounts_iter; the iterator borrows the Bank until the
\* next process_transaction call.
Snapshot ==
    /\ ~snapshot.taken
    /\ snapshot' = [taken |-> TRUE, rows |-> accounts_iter]
    /\ UNCHANGED <<accounts, transactions, disputes, lastTx, outcome,
                   preDispute, chargedBack, chargedClients, resolved,
                   processed>>

Next ==
    \/ Deposit \/ Withdrawal \/ Dispute \/ Resolve \/ Chargeback
    \/ Snapshot

Spec == Init /\ [][Next]_vars

TypeOK ==
    /\ DOMAIN accounts \subseteq AccountID
    /\ DOMAIN transactions \subseteq TransactionID
    /\ DOMAIN disputes \subseteq TransactionID
    /\ lastTx \in Transaction \cup {NoTx}
    /\ processed \in 0..MaxFeed

\* ------------------------------------------------------------------ claims
\* The record the step consumes is lastTx'; the unprimed variables are the
\* state before the call.
IsStep(kinds) == processed' = processed + 1 /\ lastTx'.kind \in kinds

\* The deposit's account would reject a Dispute of transaction ID id for lack
\* of available funds.
DisputeExceedsAvailable(id) ==
    /\ id \in DOMAIN transactions
    /\ transactions[id].client \in DOMAIN accounts
    /\ transactions[id].amount > accounts[transactions[id].client].available

\* C1: after any sequence of process_transaction calls every account has
\* available >= 0, held >= 0 and total = available + held.
C1_BalancesConsistent ==
    \A c \in DOMAIN accounts :
        /\ available(accounts[c]) >= 0
        /\ held(accounts[c]) >= 0
        /\ total(accounts[c]) = available(accounts[c]) + held(accounts[c])

\* A cross-client Dispute of a deposit whose funds are already held has just
\* been rejected.
C1_Witness ==
    /\ lastTx.kind = "Dispute"
    /\ outcome = "InsufficientAvailableFunds"
    /\ lastTx.id \in DOMAIN disputes
    /\ lastTx.id \in DOMAIN transactions
    /\ transactions[lastTx.id].client \in DOMAIN accounts
    /\ transactions[lastTx.id].client # lastTx.client
    /\ accounts[transactions[lastTx.id].client].held > 0

\* C2: once an account is locked, a Deposit or Withdrawal for that client
\* leaves the account (available, held, locked) as it was.
C2_LockedAccountFrozen ==
    [][\A c \in DOMAIN accounts :
          (/\ accounts[c].locked
           /\ IsStep({"Deposit", "Withdrawal"})
           /\ lastTx'.client = c) => accounts'[c] = accounts[c]]_vars

\* C3: a Dispute of a transaction ID that is already in the active-dispute
\* index leaves available and held of every account unchanged.
C3_SecondDisputeNoEffect ==
    [][(IsStep({"Dispute"}) /\ lastTx'.id \in DOMAIN disputes) =>
          \A c \in DOMAIN accounts :
              /\ accounts'[c].available = accounts[c].available
              /\ accounts'[c].held = accounts[c].held]_vars

\* C4: a Resolve or Chargeback whose transaction ID is not in the
\* active-dispute index changes no account, nor the history, nor the index.
C4_NoActiveDisputeNoOp ==
    [][(IsStep({"Resolve", "Chargeback"}) /\ lastTx'.id \notin DOMAIN disputes)
          => UNCHANGED bank]_vars

\* A Chargeback has just been processed for an ID that was charged back
\* before and is no longer in the index, with funds in some account.
C4_Witness ==
    /\ lastTx.kind = "Chargeback"
    /\ outcome = "NoActiveDispute"
    /\ lastTx.id \in chargedBack
    /\ \E c \in DOMAIN accounts : accounts[c].available > 0

\* C5: a transaction ID a Chargeback has been applied to is never in the
\* active-dispute index again.
C5_ChargedBackTerminal == \A id \in chargedBack : id \notin DOMAIN disputes

\* C6: when a Dispute is accepted and the next record is the Resolve of the
\* same ID, available and held of the deposit's account are back at their
\* values before the Dispute and the ID has left the active-dispute index.
C6_DisputeResolveRoundTrip ==
    (lastTx.kind = "Resolve" /\ preDispute # NoDispute) =>
        /\ accounts[preDispute.client].available = preDispute.available
        /\ accounts[preDispute.client].held = preDispute.held
        /\ preDispute.id \notin DOMAIN disputes

\* A deposit of a positive amount has been disputed and then resolved.
C6_Witness ==
    /\ lastTx.kind = "Resolve"
    /\ preDispute # NoDispute
    /\ outcome = "Ok"
    /\ preDispute.id \in DOMAIN transactions
    /\ preDispute.client \in DOMAIN accounts
    /\ transactions[preDispute.id].amount > 0
    /\ accounts[preDispute.client].available >= transactions[preDispute.id].amount

\* A Dispute that exceeds the available funds changes neither the accounts
\* nor the active-dispute index.
RejectedDisputeNoEffect ==
    (IsStep({"Dispute"}) /\ DisputeExceedsAvailable(lastTx'.id)) =>
        /\ accounts' = accounts
        /\ disputes' = disputes
        /\ outcome' = "InsufficientAvailableFunds"

\* The call before this one rejected a Dispute for lack of available funds
\* and this call is a Resolve or Chargeback of the same ID.
FollowsRejectedDispute ==
    /\ lastTx.kind = "Dispute"
    /\ outcome = "InsufficientAvailableFunds"
    /\ IsStep({"Resolve", "Chargeback"})
    /\ lastTx'.id = lastTx.id

\* C7 as stated: a Dispute whose deposit amount exceeds the available funds
\* changes no balance and does not enter the index, and a following Resolve
\* or Chargeback of that ID changes nothing.
C7_RejectedDisputeThenNoOp ==
    [][/\ RejectedDisputeNoEffect
       /\ FollowsRejectedDispute => UNCHANGED bank]_vars

\* C7 amended: as C7, the following Resolve or Chargeback changing nothing
\* when the ID was not under active dispute before the rejected Dispute.
C7_RejectedDisputeThenNoOpUnlessActive ==
    [][/\ RejectedDisputeNoEffect
       /\ (FollowsRejectedDispute /\ lastTx.id \notin DOMAIN disputes)
             => UNCHANGED bank]_vars

\* A Dispute of a deposit whose funds were withdrawn has just been rejected
\* and its ID is not in the index.
C7_Witness ==
    /\ lastTx.kind = "Dispute"
    /\ outcome = "InsufficientAvailableFunds"
    /\ lastTx.id \notin DOMAIN disputes
    /\ lastTx.id \in DOMAIN transactions
    /\ transactions[lastTx.id].client \in DOMAIN accounts
    /\ accounts[transactions[lastTx.id].client].held = 0

\* C8: a Withdrawal whose client has no account leaves the accounts, the
\* history and the index unchanged.
C8_WithdrawalUnknownAccountNoOp ==
    [][(IsStep({"Withdrawal"}) /\ lastTx'.client \notin DOMAIN accounts)
          => (UNCHANGED bank /\ DOMAIN accounts' = DOMAIN accounts)]_vars

\* A Withdrawal carrying an amount has just been processed for a client
\* without an account, while another client has one.
C8_Witness ==
    /\ lastTx.kind = "Withdrawal"
    /\ outcome = "UnknownAccount"
    /\ lastTx.amount # None
    /\ lastTx.client \notin DOMAIN accounts
    /\ DOMAIN accounts # {}

\* C9: a Dispute whose transaction ID is not in the deposit history leaves
\* the active-dispute index and every account unchanged.
C9_DisputeUnknownTransactionNoOp ==
    [][(IsStep({"Dispute"}) /\ lastTx'.id \notin DOMAIN transactions)
          => (disputes' = disputes /\ accounts' = accounts)]_vars

\* A Dispute has just been processed for an ID the history lacks, by a client
\* whose account has funds.
C9_Witness ==
    /\ lastTx.kind = "Dispute"
    /\ outcome = "UnknownTransaction"
    /\ lastTx.id \notin DOMAIN transactions
    /\ lastTx.client \in DOMAIN accounts
    /\ accounts[lastTx.client].available > 0

\* C10: a Withdrawal of amount A against an existing account succeeds iff
\* available >= A and the account is not locked; on success available drops
\* by exactly A, otherwise the account is unchanged; nothing else changes.
C10_WithdrawalDebitsExactly ==
    [][(/\ IsStep({"Withdrawal"})
        /\ lastTx'.client \in DOMAIN accounts
        /\ lastTx'.amount # None) =>
          LET c == lastTx'.client
              a == accounts[c]
              A == lastTx'.amount
              ok == a.available >= A /\ ~a.locked
          IN /\ (outcome' = "Ok") <=> ok
             /\ DOMAIN accounts' = DOMAIN accounts
             /\ accounts'[c] = IF ok THEN [a EXCEPT !.available = a.available - A]
                               ELSE a
             /\ \A d \in DOMAIN accounts \ {c} : accounts'[d] = accounts[d]
             /\ UNCHANGED <<transactions, disputes>>]_vars

\* A Withdrawal of a positive amount has just succeeded while the history
\* holds a deposit.
C10_Witness ==
    /\ lastTx.kind = "Withdrawal"
    /\ outcome = "Ok"
    /\ lastTx.amount > 0
    /\ DOMAIN transactions # {}

\* A Withdrawal has just been refused on a locked account with enough funds.
C10_WitnessLocked ==
    /\ lastTx.kind = "Withdrawal"
    /\ outcome = "AccountLocked"
    /\ lastTx.amount # None
    /\ lastTx.client \in DOMAIN accounts
    /\ accounts[lastTx.client].available >= lastTx.amount

\* C11: a Chargeback of a transaction ID in the active-dispute index removes
\* the ID from the index, lowers held of the disputed deposit's account by
\* the deposit amount, leaves available unchanged and sets locked.
C11_ChargebackApplied ==
    [][(IsStep({"Chargeback"}) /\ lastTx'.id \in DOMAIN disputes) =>
          LET d == disputes[lastTx'.id]
              c == d.client
          IN /\ lastTx'.id \notin DOMAIN disputes'
             /\ c \in DOMAIN accounts
             /\ accounts'[c].held = accounts[c].held - d.amount
             /\ accounts'[c].available = accounts[c].available
             /\ total(accounts'[c]) = total(accounts[c]) - d.amount
             /\ accounts'[c].locked
             /\ outcome' = "Ok"]_vars

\* A Chargeback of a deposit of a positive amount has just been applied to an
\* account that keeps available funds, as frozen_account of tests::iterator.
C11_Witness ==
    /\ lastTx.kind = "Chargeback"
    /\ outcome = "Ok"
    /\ lastTx.id \in DOMAIN transactions
    /\ transactions[lastTx.id].amount > 0
    /\ \E c \in DOMAIN accounts :
          /\ accounts[c].locked
          /\ accounts[c].available > 0
          /\ accounts[c].held = 0

\* C12: a Deposit carrying amount A creates the client's account if absent,
\* raises its available by exactly A, leaves held and locked unchanged and
\* records the record in the history under its ID; a Deposit or Withdrawal
\* without an amount changes no state.
C12_DepositCreditsExactly ==
    [][/\ (IsStep({"Deposit"}) /\ lastTx'.amount # None) =>
            LET c == lastTx'.client
                a == IF c \in DOMAIN accounts THEN accounts[c] ELSE Account_new
            IN /\ DOMAIN accounts' = DOMAIN accounts \cup {c}
               /\ accounts'[c] =
                     [a EXCEPT !.available = a.available + lastTx'.amount]
               /\ \A d \in DOMAIN accounts \ {c} : accounts'[d] = accounts[d]
               /\ transactions' = Insert(transactions, lastTx'.id, lastTx')
               /\ disputes' = disputes
       /\ (IsStep({"Deposit", "Withdrawal"}) /\ lastTx'.amount = None) =>
            UNCHANGED bank]_vars

\* A Deposit of a positive amount has just created a second account and its
\* history entry.
C12_Witness ==
    /\ lastTx.kind = "Deposit"
    /\ outcome = "Ok"
    /\ lastTx.amount > 0
    /\ lastTx.client \in DOMAIN accounts
    /\ accounts[lastTx.client] = [available |-> lastTx.amount, held |-> 0,
                                  locked |-> FALSE]
    /\ lastTx.id \in DOMAIN transactions
    /\ transactions[lastTx.id] = lastTx
    /\ Cardinality(DOMAIN accounts) = 2

\* An account is locked exactly when a Chargeback has been applied to it.
LockedIffChargedBack ==
    \A c \in DOMAIN accounts : accounts[c].locked <=> c \in chargedClients

\* A locked account stays locked.
LockIsPermanent ==
    \A c \in DOMAIN accounts :
        accounts[c].locked => (c \in DOMAIN accounts' /\ accounts'[c].locked)

\* C13: an account is locked iff a Chargeback has been applied to one of its
\* disputed deposits, and once locked it is locked in every later state.
C13_LockedByChargebackForever ==
    [](LockedIffChargedBack) /\ [][LockIsPermanent]_vars

\* A locked account has gone through a later Deposit, Dispute and Resolve and
\* is still locked.
C13_Witness ==
    /\ lastTx.kind = "Resolve"
    /\ outcome = "Ok"
    /\ \E c \in chargedClients :
          /\ c \in DOMAIN accounts
          /\ accounts[c].locked
          /\ accounts[c].available > 0

\* The rows of a live snapshot: one per known account, carrying its
\* available, held, total = available + held and locked.
SnapshotRowsMatch ==
    snapshot.taken =>
        /\ Cardinality(snapshot.rows) = Cardinality(DOMAIN accounts)
        /\ \A c \in DOMAIN accounts :
              Cardinality({r \in snapshot.rows : r[1] = c}) = 1
        /\ \A r \in snapshot.rows :
              /\ r[1] \in DOMAIN accounts
              /\ r[2] = accounts[r[1]].available
              /\ r[3] = accounts[r[1]].held
              /\ r[4] = r[2] + r[3]
              /\ r[5] = accounts[r[1]].locked

\* C14: accounts_iter yields exactly one tuple (client, available, held,
\* total, locked) per known account with total = available + held and the
\* values of the account at call time, and taking it changes no bank state.
C14_SnapshotOnePerAccount ==
    [](SnapshotRowsMatch)
    /\ [][(~snapshot.taken /\ snapshot'.taken) => UNCHANGED bank]_vars

\* A snapshot has been taken of two accounts, one with held funds and one
\* locked, as in tests::iterator.
C14_Witness ==
    /\ snapshot.taken
    /\ Cardinality(snapshot.rows) = 2
    /\ \E r \in snapshot.rows : r[3] > 0 /\ ~r[5]
    /\ \E r \in snapshot.rows : r[5]

\* The accounts a step creates or changes.
Touched ==
    {c \in DOMAIN accounts' : c \notin DOMAIN accounts \/ accounts'[c] # accounts[c]}

\* C15: every transaction changes at most one account; a Dispute changes only
\* the account of the deposit's client, a Resolve or Chargeback only the
\* account of the disputed deposit's client, never the account the record
\* itself names when the two differ.
C15_OnlyDepositClientTouched ==
    [][/\ Cardinality(Touched) <= 1
       /\ DOMAIN accounts \subseteq DOMAIN accounts'
       /\ (IsStep({"Dispute"}) /\ lastTx'.id \in DOMAIN transactions) =>
             Touched \subseteq {transactions[lastTx'.id].client}
       /\ (IsStep({"Dispute"}) /\ lastTx'.id \notin DOMAIN transactions) =>
             Touched = {}
       /\ (IsStep({"Resolve", "Chargeback"}) /\ lastTx'.id \in DOMAIN disputes) =>
             Touched \subseteq {disputes[lastTx'.id].client}
       /\ (IsStep({"Resolve", "Chargeback"}) /\ lastTx'.id \notin DOMAIN disputes) =>
             Touched = {}]_vars

\* A Chargeback record naming another client, who has an account, has just
\* been applied to the account of the deposit's client.
C15_Witness ==
    /\ lastTx.kind = "Chargeback"
    /\ outcome = "Ok"
    /\ lastTx.client \in DOMAIN accounts
    /\ ~accounts[lastTx.client].locked
    /\ lastTx.id \in DOMAIN transactions
    /\ transactions[lastTx.id].client # lastTx.client
    /\ transactions[lastTx.id].client \in DOMAIN accounts
    /\ accounts[transactions[lastTx.id].client].locked

\* A Resolve of an ID in the index removes it and leaves the history as it is.
ResolveReturnsToRecorded ==
    (IsStep({"Resolve"}) /\ lastTx'.id \in DOMAIN disputes) =>
        /\ lastTx'.id \notin DOMAIN disputes'
        /\ transactions' = transactions

\* A Dispute of an ID that was resolved and is not in the index is accepted
\* when the available funds of the deposit's account cover the amount.
DisputeAcceptedAfterResolve ==
    (/\ IsStep({"Dispute"})
     /\ lastTx'.id \in resolved
     /\ lastTx'.id \notin DOMAIN disputes
     /\ lastTx'.id \in DOMAIN transactions
     /\ transactions[lastTx'.id].client \in DOMAIN accounts
     /\ ~DisputeExceedsAvailable(lastTx'.id)) =>
        LET d == transactions[lastTx'.id]
        IN /\ lastTx'.id \in DOMAIN disputes'
           /\ disputes'[lastTx'.id] = d
           /\ accounts'[d.client].held = accounts[d.client].held + d.amount
           /\ accounts'[d.client].available =
                 accounts[d.client].available - d.amount

\* C16: a Resolve removes the ID from the active-dispute index and leaves its
\* history entry unchanged, and a later Dispute of the same ID is accepted
\* again when available funds suffice.
C16_ResolveThenDisputeAgain ==
    [][ResolveReturnsToRecorded /\ DisputeAcceptedAfterResolve]_vars

\* A deposit of a positive amount has been disputed, resolved and disputed
\* again, and its amount is held.
C16_Witness ==
    /\ lastTx.kind = "Dispute"
    /\ outcome = "Ok"
    /\ lastTx.id \in resolved
    /\ lastTx.id \in DOMAIN disputes
    /\ disputes[lastTx.id].amount > 0
    /\ disputes[lastTx.id].client \in DOMAIN accounts
    /\ accounts[disputes[lastTx.id].client].held = disputes[lastTx.id].amount

\* The sum of the amounts of the deposits ids that the active-dispute index
\* holds for client c.
RECURSIVE DisputedAmount(_, _)
DisputedAmount(c, ids) ==
    IF ids = {} THEN 0
    ELSE LET id == CHOOSE x \in ids : TRUE
         IN (IF disputes[id].client = c THEN disputes[id].amount ELSE 0)
            + DisputedAmount(c, ids \ {id})

\* C17: held of each account equals the sum of the amounts of the entries of
\* the active-dispute index that belong to its client.
C17_HeldIsSumOfActiveDisputes ==
    \A c \in DOMAIN accounts :
        accounts[c].held = DisputedAmount(c, DOMAIN disputes)

\* Every deposit of the history and of the active-dispute index carries an
\* amount, so the unwrap of process_dispute, process_resolve and
\* process_chargeback finds one.
EntriesCarryAmount ==
    /\ \A id \in DOMAIN transactions : transactions[id].amount # None
    /\ \A id \in DOMAIN disputes : disputes[id].amount # None

\* C18: process_transaction never aborts: every entry of the history and of
\* the index carries an amount, and while the feed has records every record
\* can be processed, whatever was rejected before.
C18_UnwrapNeverFails ==
    /\ EntriesCarryAmount
    /\ processed < MaxFeed => \A t \in Transaction : ENABLED process_transaction(t)

\* A Deposit without an amount has just been skipped while a dispute is
\* active, and the feed has further records.
C18_Witness ==
    /\ lastTx.kind = "Deposit"
    /\ lastTx.amount = None
    /\ outcome = "MalformedTransaction"
    /\ DOMAIN disputes # {}
    /\ processed < MaxFeed

\* C19: no transaction removes an account or a history entry, and an account
\* or history entry is created only by a Deposit that carries an amount.
C19_RegistriesOnlyGrowByDeposit ==
    [][/\ DOMAIN accounts \subseteq DOMAIN accounts'
       /\ DOMAIN transactions \subseteq DOMAIN transactions'
       /\ (DOMAIN accounts' # DOMAIN accounts
             \/ DOMAIN transactions' # DOMAIN transactions) =>
              (IsStep({"Deposit"}) /\ lastTx'.amount # None)]_vars

\* A Deposit has just created the second account and the second history
\* entry, after a Dispute and a Chargeback were processed.
C19_Witness ==
    /\ lastTx.kind = "Deposit"
    /\ outcome = "Ok"
    /\ Cardinality(DOMAIN accounts) = 2
    /\ Cardinality(DOMAIN transactions) = 2
    /\ accounts[lastTx.client].available = lastTx.amount
    /\ accounts[lastTx.client].held = 0
    /\ chargedBack # {}

\* C20: every ID in the active-dispute index is a key of the history, the
\* index entry has the client and amount of the history entry, and that
\* client has an account.
C20_IndexMirrorsHistory ==
    \A id \in DOMAIN disputes :
        /\ id \in DOMAIN transactions
        /\ disputes[id].client = transactions[id].client
        /\ disputes[id].amount = transactions[id].amount
        /\ disputes[id].client \in DOMAIN accounts

====
